---- MODULE Spec2Model ----
(***************************************************************************)
(* Software timer (swtimer.c) running on a software timer system           *)
(* (swtimersys.c).                                                         *)
(*                                                                         *)
(* uint64_t is modelled by an unsigned word of WordBits bits: TLC's        *)
(* integers are 32 bits wide, so the word is scaled down and every         *)
(* arithmetic result of the C code is reduced modulo 2^WordBits exactly    *)
(* where the C code reduces it modulo 2^64.  TIMER_BITS_MAX, the widest    *)
(* timer, is the width of that word, as in the source (64).                *)
(*                                                                         *)
(* Starvation awareness is compiled in.  An assertion on an argument that  *)
(* fails ends the program (aborted) in the build with assertions and is    *)
(* absent from the NDEBUG build (ndebug); Spec and PairSpec, which call    *)
(* the operations within their preconditions, are the build with           *)
(* assertions, SysSpec is either.  swtimer_get_time signals starvation     *)
(* through assert(!is_timer_starving(..)); the model records the outcome   *)
(* of that                                                                 *)
(* assertion in out.starving.  is_timer_starving has already updated the   *)
(* timer's tracking data when the assertion is evaluated, so the data a    *)
(* signalling call leaves behind is what a later call (after an assert     *)
(* hook that returns) works on.                                            *)
(***************************************************************************)
EXTENDS Integers, Naturals, FiniteSets, Sequences, TLC

-----------------------------------------------------------------------------
(* Bounds of the model *)

WordBits == 10
MaxSteps == 5
MaxSysSteps == 3

-----------------------------------------------------------------------------
(* Program constants *)

TIMER_BITS_MIN == 2
TIMER_BITS_MAX == WordBits
NS_IN_ONE_US == 1000
NS_IN_ONE_MS == 1000000
NS_IN_ONE_SECOND == 1000000000
SWTIMER_TIMERTICK == 0
SWTIMER_NS == 1
SWTIMER_US == 2
SWTIMER_MS == 3
SWTIMER_S == 4

UINT64_MOD == 2 ^ WordBits
UINT64_MAX == UINT64_MOD - 1

U64(x) == x % UINT64_MOD

RECURSIVE BitAnd(_, _)
BitAnd(a, b) ==
    IF a = 0 \/ b = 0 THEN 0
    ELSE (a % 2) * (b % 2) + 2 * BitAnd(a \div 2, b \div 2)

RECURSIVE BitOr(_, _)
BitOr(a, b) ==
    IF a = 0 THEN b
    ELSE IF b = 0 THEN a
    ELSE (IF (a % 2) + (b % 2) > 0 THEN 1 ELSE 0) + 2 * BitOr(a \div 2, b \div 2)

-----------------------------------------------------------------------------
(* Inputs the operations are called with *)

Resolutions == {SWTIMER_TIMERTICK, SWTIMER_NS, SWTIMER_US, SWTIMER_MS, SWTIMER_S}
Widths == {TIMER_BITS_MIN, TIMER_BITS_MIN + 1, TIMER_BITS_MAX}
Durations == {1, NS_IN_ONE_US}
Limits == {0, 1, 2, 3}
Deltas == {1, UINT64_MAX}
HwValues == {0, 1, 9, UINT64_MAX}

\* What swtimersys_init and swtimersys_tick are called with when the caller
\* may break their preconditions: every width around [TIMER_BITS_MIN,
\* TIMER_BITS_MAX], duration 0, tick count 0.
SysWidths == 0 .. (TIMER_BITS_MAX + 1)
SysDurations == {0, 1}
SysDeltas == {0} \cup Deltas

\* The (tick_duration_ns, timer_width_bits) swtimersys_init is called with:
\* every width with a duration that passes, duration 0 with the widths of
\* Widths.
SysInitArgs == {a \in SysDurations \X SysWidths : a[1] # 0 \/ a[2] \in Widths}

\* Values of a user data pointer: the null pointer and an object.
Contexts == {"null", "ctx_a"}

\* The (poll_cb, user_data_p) swtimersys_init is called with: user data comes
\* with a poll callback.
SysPollArgs == {a \in BOOLEAN \X Contexts : a[1] \/ a[2] = "null"}

\* No pointer: what cb_arg holds before the poll callback has been called.
NoContext == "none"

\* No tick value: what sample holds before the timer has polled the timer system.
NoSample == UINT64_MOD

-----------------------------------------------------------------------------
(* swtimersys.c *)

\* create_mask as one shift, the shift count taken modulo the word width as
\* the shift instruction takes it.
create_mask_one_shift(bits) == 2 ^ (bits % WordBits) - 1

\* create_mask with its loop one round short.
create_mask_one_short(bits) == 2 ^ (bits - 1) - 1

RECURSIVE create_mask(_)
create_mask(bits) ==
    IF bits = 0 THEN 0
    ELSE BitOr(U64(create_mask(bits - 1) * 2), 1)

\* swtimersys_tick without the limiting by the timer mask.
advance_tick_counter_unmasked(tick_counter, timer_mask, tick_count) ==
    U64(tick_counter + tick_count)

\* swtimersys_tick stopping the counter at the timer mask instead of wrapping.
advance_tick_counter_saturating(tick_counter, timer_mask, tick_count) ==
    IF tick_counter + tick_count > timer_mask THEN timer_mask
    ELSE tick_counter + tick_count

\* The tick counter swtimersys_tick leaves: advanced, then limited by the mask.
advance_tick_counter(tick_counter, timer_mask, tick_count) ==
    BitAnd(U64(tick_counter + tick_count), timer_mask)

\* The assertions of swtimersys_init on its arguments.
swtimersys_init_asserts(tick_duration_ns, timer_width_bits) ==
    /\ tick_duration_ns # 0
    /\ timer_width_bits >= TIMER_BITS_MIN /\ timer_width_bits <= TIMER_BITS_MAX

\* The values swtimersys_init stores.
SysAfterInit(tick_duration_ns, timer_width_bits, poll_cb) ==
    [timer_mask |-> create_mask(timer_width_bits),
     tick_counter |-> 0,
     tick_duration_ns |-> tick_duration_ns,
     poll_cb |-> poll_cb]

\* swtimersys_init storing its arguments before it asserts on them.
swtimersys_after_init_unchecked(s, tick_duration_ns, timer_width_bits, poll_cb, assertions) ==
    SysAfterInit(tick_duration_ns, timer_width_bits, poll_cb)

\* The timer system swtimersys_init leaves.  With assertions compiled in, a
\* failed assertion ends the program before the first store; compiled out
\* (NDEBUG), the stores are made whatever the arguments.
swtimersys_after_init(s, tick_duration_ns, timer_width_bits, poll_cb, assertions) ==
    IF assertions /\ ~swtimersys_init_asserts(tick_duration_ns, timer_width_bits)
    THEN s
    ELSE SysAfterInit(tick_duration_ns, timer_width_bits, poll_cb)

\* The timer system swtimersys_tick leaves, in the same two builds.
swtimersys_after_tick(s, tick_count, assertions) ==
    IF assertions /\ tick_count = 0
    THEN s
    ELSE [s EXCEPT !.tick_counter =
             advance_tick_counter(s.tick_counter, s.timer_mask, tick_count)]

\* The argument the poll callback was last called with, after a
\* swtimersys_poll_timer call: the callback is given the user_data_p field.
poll_callback_arg(s, user_data_field, last_arg) ==
    IF s.poll_cb THEN user_data_field ELSE last_arg

swtimersys_poll_timer(s, hwv) ==
    IF s.poll_cb THEN hwv ELSE s.tick_counter

\* swtimersys_poll_timer as a read that clears the counter it returns.
swtimersys_after_poll_clearing(s) == [s EXCEPT !.tick_counter = 0]

\* The timer system swtimersys_poll_timer leaves: it writes no field.
swtimersys_after_poll(s) == s

swtimersys_get_tick_duration_ns(s) == s.tick_duration_ns

swtimersys_get_timer_mask(s) == s.timer_mask

-----------------------------------------------------------------------------
(* swtimer.c *)

\* init_starvation_tracking zeroing the whole tracking data, limit included,
\* before it stores the tick count.
init_starvation_tracking_zeroing(st, initial_tick_count) ==
    [st EXCEPT !.invocation_limit = 0,
               !.invocation_count = 0,
               !.last_tick_count = initial_tick_count]

init_starvation_tracking(st, initial_tick_count) ==
    [st EXCEPT !.last_tick_count = initial_tick_count]

\* is_starvation_tracking_enabled with a comparison that any limit passes.
is_starvation_tracking_enabled_any(st) == 0 <= st.invocation_limit

is_starvation_tracking_enabled(st) == 0 # st.invocation_limit

\* manage_invocation_count without the reset on a changed tick count.
manage_invocation_count_no_reset(st, tick_count) ==
    [st EXCEPT
        !.invocation_count =
            IF st.last_tick_count = tick_count
            THEN (IF st.invocation_count < UINT64_MAX
                  THEN st.invocation_count + 1
                  ELSE st.invocation_count)
            ELSE st.invocation_count,
        !.last_tick_count = tick_count]

manage_invocation_count(st, tick_count) ==
    [st EXCEPT
        !.invocation_count =
            IF st.last_tick_count = tick_count
            THEN (IF st.invocation_count < UINT64_MAX
                  THEN st.invocation_count + 1
                  ELSE st.invocation_count)
            ELSE 0,
        !.last_tick_count = tick_count]

\* is_timer_starving managing the invocation count before it looks at the limit.
is_timer_starving_count_first(st, tick_count) ==
    LET m == manage_invocation_count(st, tick_count)
    IN  IF ~is_starvation_tracking_enabled(st)
        THEN [st |-> m, starving |-> FALSE]
        ELSE [st |-> m, starving |-> m.invocation_count >= m.invocation_limit]

\* is_timer_starving signalling only above the invocation limit.
is_timer_starving_above_limit(st, tick_count) ==
    IF ~is_starvation_tracking_enabled(st)
    THEN [st |-> st, starving |-> FALSE]
    ELSE LET m == manage_invocation_count(st, tick_count)
         IN  [st |-> m, starving |-> m.invocation_count > m.invocation_limit]

\* The tracking data is_timer_starving leaves behind, and the value it returns.
is_timer_starving(st, tick_count) ==
    IF ~is_starvation_tracking_enabled(st)
    THEN [st |-> st, starving |-> FALSE]
    ELSE LET m == manage_invocation_count(st, tick_count)
         IN  [st |-> m, starving |-> m.invocation_count >= m.invocation_limit]

\* get_elapsed_ticks without the + 1 of the wrapped branch.
get_elapsed_ticks_off_by_one(timer_mask, start_tick_count, tick_count) ==
    IF start_tick_count <= tick_count
    THEN U64(tick_count - start_tick_count)
    ELSE U64(U64(timer_mask - start_tick_count) + tick_count)

\* get_elapsed_ticks taking the plain distance of the two tick counts.
get_elapsed_ticks_distance(timer_mask, start_tick_count, tick_count) ==
    IF start_tick_count <= tick_count
    THEN U64(tick_count - start_tick_count)
    ELSE U64(start_tick_count - tick_count)

get_elapsed_ticks(timer_mask, start_tick_count, tick_count) ==
    IF start_tick_count <= tick_count
    THEN U64(tick_count - start_tick_count)
    ELSE U64(U64(U64(timer_mask - start_tick_count) + tick_count) + 1)

get_time_for_tick_count(tick_duration_ns, tick_count, resolution) ==
    CASE resolution = SWTIMER_NS -> U64(tick_count * tick_duration_ns)
      [] resolution = SWTIMER_US -> U64(tick_count * tick_duration_ns) \div NS_IN_ONE_US
      [] resolution = SWTIMER_MS -> U64(tick_count * tick_duration_ns) \div NS_IN_ONE_MS
      [] resolution = SWTIMER_S -> U64(tick_count * tick_duration_ns) \div NS_IN_ONE_SECOND
      [] OTHER -> tick_count

\* swtimer_start storing the tick count limited by the timer mask.
timer_after_start_masked(t, tick_count) ==
    init_starvation_tracking(
        [t EXCEPT !.start_tick_count = BitAnd(tick_count, t.timer_mask)],
        BitAnd(tick_count, t.timer_mask))

\* The timer swtimer_start leaves, tick_count being the value it polled.
timer_after_start(t, tick_count) ==
    init_starvation_tracking(
        [t EXCEPT !.start_tick_count = tick_count], tick_count)

-----------------------------------------------------------------------------
(* State *)

VARIABLES
    sys,          \* swtimersys_t: poll_cb (set or not), tick_counter, tick_duration_ns, timer_mask
    hw,           \* the hardware timer value the poll callback returns
    tmr,          \* swtimer_t, starvation_tracking flattened into it
    out,          \* what swtimer_get_time did, when it produced this state: resolution,
                  \* elapsed ticks, return value, outcome of the starvation assertion
    op,           \* the operation that produced this state
    bits,         \* timer_width_bits of the last swtimersys_init
    sample,       \* tick value the timer's last start/get_time call polled
    prev_sample,  \* tick value the timer's call before that one polled
    started,      \* swtimer_start has been called since swtimer_init
    calls,        \* swtimer_get_time calls since the last swtimer_start
    held_static,  \* the timer system was left untouched since the last swtimer_start
    phase,        \* "Unstarted", "Running" or "Starving"
    prev_phase,   \* phase before the last operation
    total,        \* sum of the tick counts given to swtimersys_tick since swtimersys_init
    start_total,  \* total at the last swtimer_start
    returned,     \* the values swtimersys_poll_timer has returned
    ndebug,       \* the build has the assertions compiled out (NDEBUG)
    aborted,      \* a failed assertion on an argument has ended the program
    violated,     \* the last operation was called against its precondition
    user_data_p,  \* the user_data_p field of swtimersys_t
    user_data_arg,\* the user_data_p argument of the last swtimersys_init call
    cb_arg,       \* the argument the poll callback was last called with
    tmr2,         \* a second swtimer_t on the same timer system
    tick_pc,      \* where a swtimersys_tick call running in another context
                  \* stands: "idle", or "masking" between its two statements
    steps         \* operations performed

vars == <<sys, hw, tmr, out, op, bits, sample, prev_sample,
          started, calls, held_static, phase, prev_phase,
          total, start_total, returned, ndebug, aborted, violated,
          user_data_p, user_data_arg, cb_arg, tmr2, tick_pc, steps>>

\* What the operations of the timer leave alone.
sys_env == <<ndebug, user_data_p, user_data_arg, tick_pc>>

NoOut == [res |-> SWTIMER_TIMERTICK, ticks |-> 0, ret |-> 0, starving |-> FALSE]

\* The values swtimer_init stores: memset to 0, then the fields from the
\* timer system and the invocation limit.
TimerAfterInit(s, invocation_limit) ==
    [start_tick_count |-> 0,
     tick_duration_ns |-> swtimersys_get_tick_duration_ns(s),
     timer_mask |-> swtimersys_get_timer_mask(s),
     invocation_limit |-> invocation_limit,
     invocation_count |-> 0,
     last_tick_count |-> 0]

\* The state after swtimersys_init(d, w, p, u) on a timer system whose
\* user_data_p field holds f, and swtimer_init with limits l and l2 on the
\* two timers, in the build given by nd.
Configured(d, w, p, u, f, h, l, l2, nd) ==
        /\ sys = SysAfterInit(d, w, p)
        /\ hw = (IF p THEN h ELSE 0)
        /\ tmr = TimerAfterInit(SysAfterInit(d, w, p), l)
        /\ tmr2 = TimerAfterInit(SysAfterInit(d, w, p), l2)
        /\ ndebug = nd
        /\ aborted = FALSE
        /\ violated = FALSE
        /\ user_data_p = f
        /\ user_data_arg = u
        /\ cb_arg = NoContext
        /\ tick_pc = "idle"
        /\ out = NoOut
        /\ op = "swtimer_init"
        /\ bits = w
        /\ sample = NoSample
        /\ prev_sample = NoSample
        /\ started = FALSE
        /\ calls = 0
        /\ held_static = FALSE
        /\ phase = "Unstarted"
        /\ prev_phase = "Unstarted"
        /\ total = 0
        /\ start_total = 0
        /\ returned = {}
        /\ steps = 0

\* One timer in use, on a timer system in static storage (user_data_p is the
\* null pointer), in the build with assertions.
Init ==
    \E d \in Durations, w \in Widths, p \in BOOLEAN, l \in Limits, h \in HwValues :
        Configured(d, w, p, "null", "null", h, l, 0, FALSE)

-----------------------------------------------------------------------------
(* Operations *)

\* swtimersys_init as the header declares it, with a user_data_p argument.
\* The definition in swtimersys.c has no such parameter and no store to the
\* user_data_p field (nor to timer_width_bits), so the field keeps the value
\* it had.
swtimersys_init(tick_duration_ns, timer_width_bits, poll_cb, user_data) ==
    /\ steps < MaxSteps /\ ~aborted
    /\ LET ok == swtimersys_init_asserts(tick_duration_ns, timer_width_bits)
           stores == ok \/ ndebug
       IN  /\ violated' = ~ok
           /\ aborted' = ~stores
           /\ bits' = (IF stores THEN timer_width_bits ELSE bits)
           /\ total' = (IF stores THEN 0 ELSE total)
           /\ start_total' = (IF stores THEN 0 ELSE start_total)
    /\ sys' = swtimersys_after_init(sys, tick_duration_ns, timer_width_bits,
                                    poll_cb, ~ndebug)
    /\ user_data_arg' = user_data
    /\ op' = "swtimersys_init"
    /\ held_static' = FALSE
    /\ prev_phase' = phase
    /\ steps' = steps + 1
    /\ out' = NoOut
    /\ UNCHANGED <<hw, tmr, tmr2, sample, prev_sample, started, calls, phase,
                   returned, ndebug, user_data_p, cb_arg, tick_pc>>

swtimersys_tick(tick_count) ==
    /\ steps < MaxSteps /\ ~aborted
    /\ tick_pc = "idle"
    /\ violated' = (tick_count = 0)
    /\ aborted' = (tick_count = 0 /\ ~ndebug)
    /\ sys' = swtimersys_after_tick(sys, tick_count, ~ndebug)
    /\ op' = "swtimersys_tick"
    /\ held_static' = FALSE
    /\ prev_phase' = phase
    /\ steps' = steps + 1
    /\ out' = NoOut
    /\ total' = total + tick_count
    /\ UNCHANGED <<hw, tmr, tmr2, bits, sample, prev_sample, started, calls, phase,
                   start_total, returned, cb_arg>>
    /\ UNCHANGED sys_env

\* swtimersys_tick running in a context of its own, statement by statement:
\* first the addition stored to tick_counter, then the limiting by the mask
\* stored to tick_counter.  The field is a plain uint64_t and nothing keeps
\* another context from running between the two stores.
swtimersys_tick_add(tick_count) ==
    /\ steps < MaxSteps /\ ~aborted
    /\ tick_pc = "idle"
    /\ tick_count # 0
    /\ sys' = [sys EXCEPT !.tick_counter = U64(sys.tick_counter + tick_count)]
    /\ tick_pc' = "masking"
    /\ op' = "swtimersys_tick_add"
    /\ violated' = FALSE
    /\ held_static' = FALSE
    /\ prev_phase' = phase
    /\ steps' = steps + 1
    /\ out' = NoOut
    /\ total' = total + tick_count
    /\ UNCHANGED <<hw, tmr, tmr2, bits, sample, prev_sample, started, calls, phase,
                   start_total, returned, cb_arg, aborted,
                   ndebug, user_data_p, user_data_arg>>

swtimersys_tick_mask ==
    /\ steps < MaxSteps /\ ~aborted
    /\ tick_pc = "masking"
    /\ sys' = [sys EXCEPT !.tick_counter = BitAnd(sys.tick_counter, sys.timer_mask)]
    /\ tick_pc' = "idle"
    /\ op' = "swtimersys_tick"
    /\ violated' = FALSE
    /\ held_static' = FALSE
    /\ prev_phase' = phase
    /\ steps' = steps + 1
    /\ out' = NoOut
    /\ UNCHANGED <<hw, tmr, tmr2, bits, sample, prev_sample, started, calls, phase,
                   total, start_total, returned, cb_arg, aborted,
                   ndebug, user_data_p, user_data_arg>>

\* swtimersys_poll_timer called by the application itself.
swtimersys_poll_timer_call ==
    /\ steps < MaxSteps /\ ~aborted
    /\ returned' = returned \cup {swtimersys_poll_timer(sys, hw)}
    /\ cb_arg' = poll_callback_arg(sys, user_data_p, cb_arg)
    /\ sys' = swtimersys_after_poll(sys)
    /\ op' = "swtimersys_poll_timer"
    /\ violated' = FALSE
    /\ prev_phase' = phase
    /\ steps' = steps + 1
    /\ out' = NoOut
    /\ UNCHANGED <<hw, tmr, tmr2, bits, sample, prev_sample, started, calls, phase,
                   held_static, total, start_total, aborted>>
    /\ UNCHANGED sys_env

\* The hardware timer behind the poll callback takes another value.
HwChange(v) ==
    /\ steps < MaxSteps /\ ~aborted
    /\ sys.poll_cb
    /\ v # hw
    /\ hw' = v
    /\ op' = "hw"
    /\ violated' = FALSE
    /\ held_static' = FALSE
    /\ prev_phase' = phase
    /\ steps' = steps + 1
    /\ out' = NoOut
    /\ UNCHANGED <<sys, tmr, tmr2, bits, sample, prev_sample, started, calls, phase,
                   total, start_total, returned, aborted, cb_arg>>
    /\ UNCHANGED sys_env

swtimer_init(invocation_limit) ==
    /\ steps < MaxSteps /\ ~aborted
    /\ tmr' = TimerAfterInit(sys, invocation_limit)
    /\ out' = NoOut
    /\ op' = "swtimer_init"
    /\ violated' = FALSE
    /\ sample' = NoSample
    /\ prev_sample' = NoSample
    /\ started' = FALSE
    /\ calls' = 0
    /\ held_static' = FALSE
    /\ phase' = "Unstarted"
    /\ prev_phase' = phase
    /\ steps' = steps + 1
    /\ UNCHANGED <<sys, hw, tmr2, bits, total, start_total, returned, aborted, cb_arg>>
    /\ UNCHANGED sys_env

swtimer_start ==
    /\ steps < MaxSteps /\ ~aborted
    /\ LET tick_count == swtimersys_poll_timer(sys, hw)
       IN  /\ tmr' = timer_after_start(tmr, tick_count)
           /\ returned' = returned \cup {tick_count}
           /\ sample' = tick_count
    /\ cb_arg' = poll_callback_arg(sys, user_data_p, cb_arg)
    /\ prev_sample' = sample
    /\ op' = "swtimer_start"
    /\ violated' = FALSE
    /\ started' = TRUE
    /\ calls' = 0
    /\ held_static' = TRUE
    /\ phase' = "Running"
    /\ prev_phase' = phase
    /\ steps' = steps + 1
    /\ out' = NoOut
    /\ sys' = swtimersys_after_poll(sys)
    /\ start_total' = total
    /\ UNCHANGED <<hw, tmr2, bits, total, aborted>>
    /\ UNCHANGED sys_env

swtimer_get_time(resolution) ==
    /\ steps < MaxSteps /\ ~aborted
    /\ LET polled == swtimersys_poll_timer(sys, hw)
           tick_count == get_elapsed_ticks(tmr.timer_mask, tmr.start_tick_count, polled)
           r == is_timer_starving(tmr, tick_count)
       IN  /\ tmr' = r.st
           /\ out' = [res |-> resolution,
                      ticks |-> tick_count,
                      ret |-> get_time_for_tick_count(tmr.tick_duration_ns,
                                                      tick_count, resolution),
                      starving |-> r.starving]
           /\ sample' = polled
           /\ returned' = returned \cup {polled}
           /\ phase' = (IF r.starving THEN "Starving"
                        ELSE IF started THEN "Running" ELSE "Unstarted")
    /\ cb_arg' = poll_callback_arg(sys, user_data_p, cb_arg)
    /\ prev_sample' = sample
    /\ op' = "swtimer_get_time"
    /\ violated' = FALSE
    /\ calls' = calls + 1
    /\ prev_phase' = phase
    /\ steps' = steps + 1
    /\ sys' = swtimersys_after_poll(sys)
    /\ UNCHANGED <<hw, tmr2, bits, started, held_static, total, start_total, aborted>>
    /\ UNCHANGED sys_env

\* What an operation on the second timer leaves alone: the bookkeeping of the
\* first timer's calls.
first_timer_calls == <<sample, prev_sample, started, calls, held_static, phase,
                       total, start_total>>

\* swtimer_init, swtimer_start and swtimer_get_time on the second timer.
swtimer2_init(invocation_limit) ==
    /\ steps < MaxSteps /\ ~aborted
    /\ tmr2' = TimerAfterInit(sys, invocation_limit)
    /\ out' = NoOut
    /\ op' = "swtimer2_init"
    /\ violated' = FALSE
    /\ prev_phase' = phase
    /\ steps' = steps + 1
    /\ UNCHANGED <<sys, hw, tmr, bits, returned, aborted, cb_arg>>
    /\ UNCHANGED first_timer_calls
    /\ UNCHANGED sys_env

swtimer2_start ==
    /\ steps < MaxSteps /\ ~aborted
    /\ LET tick_count == swtimersys_poll_timer(sys, hw)
       IN  /\ tmr2' = timer_after_start(tmr2, tick_count)
           /\ returned' = returned \cup {tick_count}
    /\ cb_arg' = poll_callback_arg(sys, user_data_p, cb_arg)
    /\ op' = "swtimer2_start"
    /\ violated' = FALSE
    /\ prev_phase' = phase
    /\ steps' = steps + 1
    /\ out' = NoOut
    /\ sys' = swtimersys_after_poll(sys)
    /\ UNCHANGED <<hw, tmr, bits, aborted>>
    /\ UNCHANGED first_timer_calls
    /\ UNCHANGED sys_env

swtimer2_get_time(resolution) ==
    /\ steps < MaxSteps /\ ~aborted
    /\ LET polled == swtimersys_poll_timer(sys, hw)
           tick_count == get_elapsed_ticks(tmr2.timer_mask, tmr2.start_tick_count, polled)
           r == is_timer_starving(tmr2, tick_count)
       IN  /\ tmr2' = r.st
           /\ out' = [res |-> resolution,
                      ticks |-> tick_count,
                      ret |-> get_time_for_tick_count(tmr2.tick_duration_ns,
                                                      tick_count, resolution),
                      starving |-> r.starving]
           /\ returned' = returned \cup {polled}
    /\ cb_arg' = poll_callback_arg(sys, user_data_p, cb_arg)
    /\ op' = "swtimer2_get_time"
    /\ violated' = FALSE
    /\ prev_phase' = phase
    /\ steps' = steps + 1
    /\ sys' = swtimersys_after_poll(sys)
    /\ UNCHANGED <<hw, tmr, bits, aborted>>
    /\ UNCHANGED first_timer_calls
    /\ UNCHANGED sys_env

\* One timer system, initialised once, and one timer bound to it once: Init
\* draws their configuration.
Next ==
    \/ \E n \in Deltas : swtimersys_tick(n)
    \/ \E v \in HwValues : HwChange(v)
    \/ swtimer_start
    \/ \E r \in Resolutions : swtimer_get_time(r)

Spec == Init /\ [][Next]_vars

\* The timer system alone, in either build, its operations called with any
\* arguments, MaxSysSteps times.  The timer system is an object of automatic storage: the
\* user_data_p field, which nothing assigns, holds any pointer value.
SysInit ==
    \E p \in BOOLEAN, f \in Contexts, nd \in BOOLEAN :
        Configured(1, TIMER_BITS_MIN, p, "ctx_a", f, 9, 0, 0, nd)

SysNext ==
    \/ \E a \in SysInitArgs, c \in SysPollArgs :
           steps < MaxSysSteps /\ swtimersys_init(a[1], a[2], c[1], c[2])
    \/ \E n \in SysDeltas : steps < MaxSysSteps /\ swtimersys_tick(n)
    \/ \E v \in HwValues : steps < MaxSysSteps /\ HwChange(v)
    \/ steps < MaxSysSteps /\ swtimersys_poll_timer_call

SysSpec == SysInit /\ [][SysNext]_vars

\* Two timers on one timer system.
PairLimits == {0, 2}
PairResolutions == {SWTIMER_TIMERTICK, SWTIMER_NS}

PairInit ==
    \E w \in Widths, p \in BOOLEAN, l \in PairLimits, l2 \in PairLimits :
        Configured(1, w, p, "null", "null", 9, l, l2, FALSE)

PairNext ==
    \/ \E n \in Deltas : swtimersys_tick(n)
    \/ HwChange(1) \/ HwChange(9)
    \/ \E l \in PairLimits : swtimer_init(l)
    \/ swtimer_start
    \/ \E r \in PairResolutions : swtimer_get_time(r)
    \/ \E l \in PairLimits : swtimer2_init(l)
    \/ swtimer2_start
    \/ \E r \in PairResolutions : swtimer2_get_time(r)

PairSpec == PairInit /\ [][PairNext]_vars

\* One timer on a timer system that is initialised again while the timer is
\* in use, MaxSysSteps operations.
ReconfInit ==
    \E w \in Widths, p \in BOOLEAN, l \in Limits :
        Configured(1, w, p, "null", "null", 9, l, 0, FALSE)

ReconfNext ==
    \/ \E d \in Durations, w \in Widths, p \in BOOLEAN :
           steps < MaxSysSteps /\ swtimersys_init(d, w, p, "null")
    \/ \E n \in Deltas : steps < MaxSysSteps /\ swtimersys_tick(n)
    \/ \E l \in Limits : steps < MaxSysSteps /\ swtimer_init(l)
    \/ steps < MaxSysSteps /\ swtimer_start
    \/ \E r \in PairResolutions : steps < MaxSysSteps /\ swtimer_get_time(r)

ReconfSpec == ReconfInit /\ [][ReconfNext]_vars

\* Tick mode with swtimersys_tick called in one context (an interrupt
\* handler) and the timer, or swtimersys_poll_timer itself, in others that
\* may run at any point of it.  A build may also keep the sum in a register
\* and store the counter once: swtimersys_tick as one step.
IrqInit ==
    \E w \in Widths, l \in PairLimits :
        Configured(1, w, FALSE, "null", "null", 0, l, 0, FALSE)

IrqNext ==
    \/ \E n \in Deltas : swtimersys_tick_add(n)
    \/ swtimersys_tick_mask
    \/ \E n \in Deltas : swtimersys_tick(n)
    \/ swtimersys_poll_timer_call
    \/ swtimer_start
    \/ \E r \in PairResolutions : swtimer_get_time(r)

IrqSpec == IrqInit /\ [][IrqNext]_vars

-----------------------------------------------------------------------------
(* Properties *)

TimerCall == op \in {"swtimer_start", "swtimer_get_time"}
GetTime == op = "swtimer_get_time"
WidthMask == 2 ^ bits - 1

\* C1: wraparound correctness.  When swtimer_start polled tick s and a later
\* swtimer_get_time(SWTIMER_TIMERTICK) polls tick c, both within the width W
\* of the timer system, the call returns (c - s) mod 2^W.
C1_Wraparound ==
    (/\ GetTime /\ started /\ out.res = SWTIMER_TIMERTICK
     /\ tmr.start_tick_count <= WidthMask /\ sample <= WidthMask)
    => /\ out.ticks = (sample - tmr.start_tick_count) % (2 ^ bits)
       /\ out.ret = out.ticks

\* C1 witness: the counter has wrapped to the tick just before the start tick,
\* and the call returns the maximal distance 2^W - 1.
C1_Witness ==
    /\ GetTime /\ started /\ out.res = SWTIMER_TIMERTICK
    /\ tmr.start_tick_count <= WidthMask
    /\ sample < tmr.start_tick_count
    /\ sample = tmr.start_tick_count - 1
    /\ out.ret = WidthMask

\* C2: starvation threshold.  With invocation limit N >= 1 and the timer system
\* left untouched since swtimer_start, none of the first N-1 swtimer_get_time
\* calls signals starvation and the Nth does.
C2_StarvationThreshold ==
    (GetTime /\ started /\ held_static /\ tmr.invocation_limit >= 1)
    => /\ (calls < tmr.invocation_limit => ~out.starving)
       /\ (calls = tmr.invocation_limit => out.starving)

\* C3: constant source.  With a poll callback that returns the same value C in
\* [0, timer_mask] on every read and invocation limit 3, the first three
\* swtimer_get_time calls after swtimer_start leave the invocation count at 0,
\* 1 and 2 without signalling, and the fourth reaches 3 and signals starvation.
C3_ConstantSource ==
    (/\ GetTime /\ started /\ held_static /\ sys.poll_cb
     /\ hw <= sys.timer_mask /\ tmr.invocation_limit = 3)
    => /\ (calls = 1 => tmr.invocation_count = 0 /\ ~out.starving)
       /\ (calls = 2 => tmr.invocation_count = 1 /\ ~out.starving)
       /\ (calls = 3 => tmr.invocation_count = 2 /\ ~out.starving)
       /\ (calls = 4 => tmr.invocation_count = 3 /\ out.starving)

\* C4: no starvation while advancing.  With starvation tracking enabled, a
\* swtimer_get_time call that polls a tick value different from the one the
\* timer's preceding swtimer_start or swtimer_get_time call polled leaves the
\* invocation count at 0 and does not signal starvation.
C4_NoStarvationWhileAdvancing ==
    (/\ GetTime /\ tmr.invocation_limit >= 1
     /\ prev_sample # NoSample /\ sample # prev_sample)
    => (tmr.invocation_count = 0 /\ ~out.starving)

\* C5: after every swtimer_start, the start tick is the value the call polled,
\* the last observed tick equals the start tick, and the invocation count is 0.
C5_StartResetsTracking ==
    (op = "swtimer_start")
    => /\ tmr.start_tick_count = swtimersys_poll_timer(sys, hw)
       /\ tmr.last_tick_count = tmr.start_tick_count
       /\ tmr.invocation_count = 0

\* C6: starvation disabled.  A timer initialised with invocation limit 0 never
\* signals starvation, whatever the calls made and however long the tick
\* value stays the same.
C6_DisabledNeverStarves ==
    (tmr.invocation_limit = 0) => (~out.starving /\ phase # "Starving")

\* C6 witness: three calls in a row at a tick value that never moved, on a
\* timer with invocation limit 0.
C6_Witness ==
    /\ tmr.invocation_limit = 0
    /\ GetTime /\ started /\ held_static /\ calls >= 3 /\ out.ticks = 0

C8_ConversionExact ==
    (GetTime /\ out.ticks <= tmr.timer_mask)
    => LET t == out.ticks
           d == tmr.tick_duration_ns
       IN  /\ (out.res = SWTIMER_NS => out.ret = t * d)
           /\ (out.res = SWTIMER_US => out.ret = (t * d) \div 1000)
           /\ (out.res = SWTIMER_MS => out.ret = (t * d) \div 1000000)
           /\ (out.res = SWTIMER_S => out.ret = (t * d) \div 1000000000)
           /\ (out.res = SWTIMER_TIMERTICK => out.ret = t)

\* C9 as claimed: every value swtimersys_poll_timer returns is within the
\* timer mask, in tick mode and in polling mode, so every tick value the timer
\* stores or compares is.
C9_ReadMasked ==
    TimerCall
    => /\ sample <= sys.timer_mask
       /\ tmr.start_tick_count <= sys.timer_mask
       /\ tmr.last_tick_count <= sys.timer_mask

\* C9 as amended: in tick mode every value swtimersys_poll_timer returns is
\* within the timer mask; in polling mode it is the poll callback's value
\* unchanged, which may exceed the mask and is then stored as start tick as
\* it is.
C9_ReadMaskedInTickMode ==
    TimerCall
    => /\ (~sys.poll_cb => sample <= WidthMask)
       /\ (sys.poll_cb => sample = hw)
       /\ (op = "swtimer_start" => tmr.start_tick_count = sample)

\* C9 witness: a timer started on a poll callback value above the timer mask.
C9_Witness ==
    /\ op = "swtimer_start" /\ sys.poll_cb
    /\ sample > sys.timer_mask
    /\ tmr.start_tick_count > tmr.timer_mask

\* C10: counter invariant.  After swtimersys_init and any swtimersys_tick
\* calls the tick counter lies in [0, timer_mask], and timer_mask is
\* 2^bits - 1 for the configured width bits in [2, TIMER_BITS_MAX].
C10_CounterInvariant ==
    /\ bits >= TIMER_BITS_MIN /\ bits <= TIMER_BITS_MAX
    /\ sys.timer_mask = 2 ^ bits - 1
    /\ sys.tick_counter >= 0
    /\ sys.tick_counter <= sys.timer_mask

\* C10 witness: a swtimersys_tick call wrapped the counter back to 0.
C10_Witness ==
    /\ op = "swtimersys_tick"
    /\ sys.tick_counter = 0

\* C11: modular advance.  In tick mode, after swtimersys_init and any
\* swtimersys_tick calls, swtimersys_poll_timer returns the sum of the tick
\* counts given modulo 2^W, also when an addition overflows the word.
C11_ModularAdvance ==
    ~sys.poll_cb
    => /\ swtimersys_poll_timer(sys, hw) = total % (2 ^ bits)
       /\ (TimerCall => sample = total % (2 ^ bits))

\* C11 witness: a timer narrower than the word polls the counter after two
\* advances by the largest tick count, the second of which overflowed the word.
C11_Witness ==
    /\ ~sys.poll_cb /\ TimerCall
    /\ bits < TIMER_BITS_MAX
    /\ total = 2 * UINT64_MAX
    /\ sample = total % (2 ^ bits)

\* C15: with starvation tracking enabled, after every swtimer_get_time call
\* the last observed tick is the raw tick value the call polled, the kind of
\* value swtimer_start stores there.
C15_LastObservedIsRawTick ==
    (GetTime /\ tmr.invocation_limit >= 1) => tmr.last_tick_count = sample

\* C16 as claimed: in every state of an initialised timer, also before the
\* first swtimer_start, the start tick is a value swtimersys_poll_timer
\* returned earlier.
C16_StartTickProvenance ==
    tmr.start_tick_count \in returned

\* C16 as amended: once swtimer_start has been called, the start tick is a
\* value swtimersys_poll_timer returned earlier (the one the last
\* swtimer_start polled); between swtimer_init and the first swtimer_start it
\* is the 0 of the memset, which no read returned.
C16_StartTickProvenanceOnceStarted ==
    /\ (started => tmr.start_tick_count \in returned)
    /\ (op = "swtimer_start" => tmr.start_tick_count = sample)
    /\ (~started => tmr.start_tick_count = 0)

\* C16 witness: a started timer whose start tick is a poll callback value
\* above the timer mask, kept over a later call that polled another value.
C16_Witness ==
    /\ started /\ GetTime /\ sys.poll_cb
    /\ tmr.start_tick_count > tmr.timer_mask
    /\ sample # tmr.start_tick_count
    /\ tmr.start_tick_count \in returned

\* C17: multi-wrap undercount.  In tick mode, D being the ticks advanced
\* between swtimer_start and a swtimer_get_time(SWTIMER_TIMERTICK) call, the
\* call returns D when D < 2^W and D mod 2^W, less than D, when D >= 2^W.
C17_MultiWrapUndercount ==
    (GetTime /\ started /\ ~sys.poll_cb /\ out.res = SWTIMER_TIMERTICK)
    => LET D == total - start_total
       IN  /\ (D < 2 ^ bits => out.ret = D)
           /\ (D >= 2 ^ bits => out.ret = D % (2 ^ bits) /\ out.ret < D)

\* C17 witness: more than one full counter period was advanced since the
\* start, and the call returns less than was advanced.
C17_Witness ==
    /\ GetTime /\ started /\ ~sys.poll_cb /\ out.res = SWTIMER_TIMERTICK
    /\ total - start_total >= 2 ^ bits
    /\ out.ret < total - start_total

\* C19: with invocation limit 0 a swtimer_get_time call leaves every field of
\* the timer and of the timer system as it was, and two calls with nothing
\* in between return the same value for the same resolution.
C19_DisabledReadOnly ==
    [][(tmr.invocation_limit = 0 /\ op' = "swtimer_get_time" /\ steps' # steps)
       => /\ tmr' = tmr
          /\ sys' = sys
          /\ ((op = "swtimer_get_time" /\ out'.res = out.res)
                 => out'.ret = out.ret)]_vars

\* C19 witness: after two calls on a timer with invocation limit 0 the last
\* observed tick is still not the elapsed tick count the call computed.
C19_Witness ==
    /\ tmr.invocation_limit = 0 /\ GetTime /\ calls >= 2
    /\ out.ticks # tmr.last_tick_count
    /\ tmr.invocation_count = 0

\* C12: mask construction.  For every width in [TIMER_BITS_MIN,
\* TIMER_BITS_MAX] the mask swtimersys_init builds is 2^width - 1, the width's
\* low-order bits set and no higher bit; the widest gives the all-ones word
\* without overflow.
C12_MaskConstruction ==
    /\ \A b \in TIMER_BITS_MIN .. TIMER_BITS_MAX :
           create_mask(b) = 2 ^ b - 1 /\ create_mask(b) <= UINT64_MAX
    /\ (op = "swtimersys_init" /\ ~violated)
       => sys.timer_mask = 2 ^ bits - 1 /\ sys.timer_mask < 2 ^ bits

\* C12 witness: swtimersys_init was called with the widest timer and built
\* the all-ones mask.
C12_Witness ==
    /\ op = "swtimersys_init" /\ ~violated
    /\ bits = TIMER_BITS_MAX
    /\ sys.timer_mask = UINT64_MAX

\* C13 as claimed: swtimersys_init with tick duration 0 or a width outside
\* [TIMER_BITS_MIN, TIMER_BITS_MAX], and swtimersys_tick with tick count 0,
\* leave the timer system's counter, mask, tick duration and poll callback
\* as they were.
C13_RejectedBeforeStores ==
    [][(violated' /\ steps' # steps) => sys' = sys]_vars

\* C13 as amended: in the build with assertions such a call ends the program
\* and leaves the timer system as it was; swtimersys_tick with tick count 0
\* leaves it as it was in the NDEBUG build too; swtimersys_init in the NDEBUG
\* build does not fail and stores what it was given.
C13_RejectedWhereAsserted ==
    [][(violated' /\ steps' # steps)
       => /\ (~ndebug <=> aborted')
          /\ (aborted' => sys' = sys)
          /\ (op' = "swtimersys_tick" => sys' = sys)
          /\ ((ndebug /\ op' = "swtimersys_init")
                 => /\ sys'.tick_counter = 0
                    /\ sys'.timer_mask = create_mask(bits'))]_vars

\* C13 witness: an advanced counter has survived a rejected swtimersys_init.
C13_Witness ==
    /\ op = "swtimersys_init" /\ violated /\ aborted
    /\ sys.tick_counter # 0
    /\ total # 0

\* C14: two timers on one timer system.  swtimer_init, swtimer_start and
\* swtimer_get_time on one timer change no field of the other timer and not
\* the tick counter; only swtimersys_tick changes the tick counter.
C14_IndependentTimers ==
    [][/\ ((op' \in {"swtimer_init", "swtimer_start", "swtimer_get_time"}
              /\ steps' # steps)
             => tmr2' = tmr2 /\ sys'.tick_counter = sys.tick_counter)
       /\ ((op' \in {"swtimer2_init", "swtimer2_start", "swtimer2_get_time"}
              /\ steps' # steps)
             => tmr' = tmr /\ sys'.tick_counter = sys.tick_counter)
       /\ (sys'.tick_counter # sys.tick_counter => op' = "swtimersys_tick")]_vars

\* C14 witness: both timers are in use with different start ticks on an
\* advanced counter, the first with counted invocations that a call on the
\* second has left standing.
C14_Witness ==
    /\ op = "swtimer2_get_time" /\ started
    /\ tmr.start_tick_count # tmr2.start_tick_count
    /\ tmr.invocation_count > 0 /\ tmr2.invocation_count = 0
    /\ sys.tick_counter # 0

\* C18: after swtimersys_init with a poll callback and a user data pointer,
\* swtimersys_poll_timer calls the poll callback with that user data pointer.
C18_PollGetsConfiguredUserData ==
    (op = "swtimersys_poll_timer" /\ sys.poll_cb) => cb_arg = user_data_arg

\* C20: a swtimer_get_time call that polls the tick the timer's previous call
\* polled leaves the invocation count greater by one, or at UINT64_MAX when
\* it was there.
C20_SaturatingCount ==
    [][(/\ op' = "swtimer_get_time" /\ steps' # steps
        /\ tmr.invocation_limit >= 1
        /\ TimerCall /\ sample' = sample)
       => tmr'.invocation_count =
              (IF tmr.invocation_count = UINT64_MAX THEN UINT64_MAX
               ELSE tmr.invocation_count + 1)]_vars

\* C23: bounded detection of a stalled source.  With invocation limit N >= 1,
\* whatever the timer went through before, once swtimer_start has been called
\* and the timer system is left untouched, the (N+1)th swtimer_get_time call
\* after that start, and every later one, signals starvation.
C23_BoundedDetection ==
    (GetTime /\ started /\ held_static
        /\ tmr.invocation_limit >= 1 /\ calls >= tmr.invocation_limit + 1)
    => out.starving

\* C23 witness: a timer started at a tick other than 0 signals on call N+1
\* after call N did not.
C23_Witness ==
    /\ GetTime /\ started /\ held_static
    /\ tmr.invocation_limit >= 1 /\ calls = tmr.invocation_limit + 1
    /\ tmr.start_tick_count # 0
    /\ prev_phase = "Running"
    /\ out.starving

\* C21: the timer's configuration is frozen at swtimer_init.  No operation
\* other than swtimer_init on that timer (swtimer_start, swtimer_get_time,
\* swtimersys_tick, a later swtimersys_init of the timer system) changes the
\* timer's tick duration, timer mask or invocation limit.
C21_ConfigurationFrozen ==
    [][(op' # "swtimer_init" /\ steps' # steps)
       => /\ tmr'.tick_duration_ns = tmr.tick_duration_ns
          /\ tmr'.timer_mask = tmr.timer_mask
          /\ tmr'.invocation_limit = tmr.invocation_limit]_vars

\* C21 witness: the timer system was initialised again with another tick
\* duration and width after the timer was bound; the timer, started and read
\* since, still holds the duration, mask and limit of its swtimer_init.
C21_Witness ==
    /\ GetTime /\ started
    /\ tmr.timer_mask # sys.timer_mask
    /\ tmr.tick_duration_ns # sys.tick_duration_ns
    /\ tmr.invocation_limit >= 1

\* C22: read/advance interleaving.  In tick mode, with swtimersys_tick in one
\* context and the reads of swtimer_start, swtimer_get_time and
\* swtimersys_poll_timer in another, every value read is within the timer
\* mask: no read returns the sum not yet limited by the mask.
C22_ReadNeverSeesIntermediate ==
    ~sys.poll_cb => \A v \in returned : v <= sys.timer_mask

====
